---------------------------- MODULE Spec2Model ----------------------------
(***************************************************************************)
(* wol-relay: a Wake-on-LAN repeater.                                      *)
(*                                                                         *)
(*   common.rs   check_wol_payload, wol_payload_get_target_mac             *)
(*   layer4.rs   sanitize_destination_networks, l4_worker                  *)
(*   layer2.rs   l2_worker                                                 *)
(*                                                                         *)
(* Bytes are naturals 0..255, a buffer is a sequence of bytes, an IP       *)
(* address is its sequence of octets.                                      *)
(***************************************************************************)
EXTENDS Integers, Sequences, FiniteSets, TLC

VARIABLES
    payload,        \* common.rs: the buffer handed to the validator
    verdict,        \* common.rs: <<>> before the call, then <<[valid, target]>>
    host_ips,       \* layer4.rs: pnet::datalink::interfaces() flattened to their ips
    san_relay_to,   \* layer4.rs: the relay_to argument of the sanitizer
    san_result,     \* layer4.rs: <<>> before the call, then <<Result>>
    now,            \* Instant::now(), in ticks
    cancelled,      \* CancellationToken::is_cancelled()
    l2_cfg,         \* layer2.rs: cfg.interfaces
    l2_wire,        \* layer2.rs: per interface, the frames its segment still delivers
    l2_ret,         \* layer2.rs: <<>> before l2_worker is called, then its <<Result>>
    l2_senders,     \* layer2.rs: senders, as the interface indices in push order
    l2_cap,         \* layer2.rs: per interface, its capture thread [pc, msg]
    l2_chan,        \* layer2.rs: the sync_channel's buffer
    l2_relay_pc,    \* layer2.rs: the relay thread's position
    l2_cooldown_list, \* layer2.rs: cooldown_list, target -> Instant
    l2_last,        \* history: the relay thread's latest dequeue and what it sent
    l2_received,    \* history: the frames rx.next() returned to a capture thread
    l4_listen_on,   \* layer4.rs: cfg.listen_on
    l4_wire,        \* layer4.rs: per listener, the datagrams still to arrive
    l4_ret,         \* layer4.rs: <<>> before l4_worker is called, then its <<Result>>
    l4_addrs,       \* layer4.rs: listen_on after collapsing, one capture task each
    l4_networks,    \* layer4.rs: networks, the sanitized destinations
    l4_cap,         \* layer4.rs: per listener, its capture task [pc, msg]
    l4_chan,        \* layer4.rs: the mpsc channel's buffer
    l4_relay,       \* layer4.rs: the relay task [pc, msg, k]
    l4_cooldown_list, \* layer4.rs: cooldown_list, target -> Instant
    l4_last,        \* history: the relay task's latest dequeue and what it sent
    l4_received,    \* history: the datagrams whose received buffer passed the check
    m_wire,         \* main.rs: per interface, the frames its segment still delivers
    m_ret,          \* main.rs: <<>> before l2_worker is called, then <<handles.len()>>
    m_senders,      \* main.rs: senders, as the interface indices in push order
    m_cap,          \* main.rs: per interface, its capture thread [pc, msg]
    m_chan,         \* main.rs: the sync_channel's buffer
    m_relay_pc,     \* main.rs: the relay thread's position
    m_last          \* history: the relay thread's latest dequeue and where it sent

wolVars == <<payload, verdict>>

sanVars == <<host_ips, san_relay_to, san_result>>

clockVars == <<now, cancelled>>

l2Vars == <<l2_cfg, l2_wire, l2_ret, l2_senders, l2_cap, l2_chan, l2_relay_pc,
            l2_cooldown_list, l2_last, l2_received>>

l4Vars == <<l4_listen_on, l4_wire, l4_ret, l4_addrs, l4_networks, l4_cap, l4_chan,
            l4_relay, l4_cooldown_list, l4_last, l4_received>>

mainVars == <<m_wire, m_ret, m_senders, m_cap, m_chan, m_relay_pc, m_last>>

vars == <<wolVars, sanVars, clockVars, l2Vars, l4Vars, mainVars>>

Min(a, b) == IF a < b THEN a ELSE b

Max(a, b) == IF a > b THEN a ELSE b

RECURSIVE Repeat(_, _)
Repeat(s, n) == IF n = 0 THEN <<>> ELSE s \o Repeat(s, n - 1)

SeqMap(Op(_), s) == [k \in 1..Len(s) |-> Op(s[k])]

RECURSIVE SeqFilter(_, _)
SeqFilter(Test(_), s) ==
    IF Len(s) = 0 THEN <<>>
    ELSE (IF Test(s[1]) THEN <<s[1]>> ELSE <<>>) \o SeqFilter(Test, Tail(s))

SeqsUpTo(S, n) == UNION {[1..k -> S] : k \in 0..n}

Overwrite(s, pos) ==
    IF pos = 0 \/ pos > Len(s) THEN s
    ELSE [s EXCEPT ![pos] = (s[pos] + 1) % 256]

(***************************************************************************)
(* common.rs                                                               *)
(***************************************************************************)
BROADCAST_MAC == <<255, 255, 255, 255, 255, 255>>

WOL_MIN_LEN == 102

BLOCK_LEN == 6

\* slice::chunks(n): consecutive pieces of n elements, the last one shorter
\* when the length is not a multiple of n.
chunks(s, n) ==
    [k \in 1..((Len(s) + n - 1) \div n) |->
        SubSeq(s, (k - 1) * n + 1, Min(k * n, Len(s)))]

\* The validator's loop `for i in 2..blocks.len()` (0-based), which returns
\* false at the first block that differs from block 1; blocks are 1-based
\* here, so block i of the code is blocks[i + 1]. The loop starts at i.
blocks_repeat(blocks, i) ==
    \A j \in i..(Len(blocks) - 1) : blocks[j + 1] = blocks[2]

check_wol_payload_stops_early(p) ==
    IF Len(p) < WOL_MIN_LEN THEN FALSE
    ELSE LET blocks == chunks(p, BLOCK_LEN)
         IN  IF blocks[1] # BROADCAST_MAC THEN FALSE
             ELSE blocks_repeat(SubSeq(blocks, 1, Len(blocks) - 1), 2)

check_wol_payload(p) ==
    IF Len(p) < WOL_MIN_LEN THEN FALSE
    ELSE LET blocks == chunks(p, BLOCK_LEN)
         IN  IF blocks[1] # BROADCAST_MAC THEN FALSE
             ELSE blocks_repeat(blocks, 2)

wol_payload_get_target_mac(p) ==
    <<p[7], p[8], p[9], p[10], p[11], p[12]>>

(***************************************************************************)
(* layer4.rs: networks and the sanitizer                                   *)
(*                                                                         *)
(* An IpNetwork is [fam, ip, prefix]: fam 4 with 4 octets or fam 6 with 16.*)
(***************************************************************************)
Pow2(n) == 2 ^ n

\* Bits of octet k (1-based) that a prefix of length p covers.
NetBits(p, k) == Max(0, Min(8, p - 8 * (k - 1)))

\* IpNetwork::network(): the address with its host bits cleared.
network(net) ==
    [k \in 1..Len(net.ip) |->
        net.ip[k] - (net.ip[k] % Pow2(8 - NetBits(net.prefix, k)))]

\* IpNetwork::broadcast(): the address with its host bits set.
broadcast(net) ==
    [k \in 1..Len(net.ip) |->
        network(net)[k] + Pow2(8 - NetBits(net.prefix, k)) - 1]

\* IpNetwork::new(net.network(), net.prefix())
normalized(net) == [fam |-> net.fam, ip |-> network(net), prefix |-> net.prefix]

RECURSIVE SeqLess(_, _)
SeqLess(a, b) ==
    IF Len(a) = 0 \/ Len(b) = 0 THEN Len(a) < Len(b)
    ELSE IF a[1] # b[1] THEN a[1] < b[1]
    ELSE SeqLess(Tail(a), Tail(b))

SeqLeq(a, b) == a = b \/ SeqLess(a, b)

\* The derived Ord of IpNetwork: variant (V4 before V6), address, prefix.
NetLess(a, b) ==
    IF a.fam # b.fam THEN a.fam < b.fam
    ELSE IF a.ip # b.ip THEN SeqLess(a.ip, b.ip)
    ELSE a.prefix < b.prefix

RECURSIVE InsertSorted(_, _)
InsertSorted(x, s) ==
    IF Len(s) = 0 THEN <<x>>
    ELSE IF NetLess(x, s[1]) THEN <<x>> \o s
    ELSE <<s[1]>> \o InsertSorted(x, Tail(s))

\* Vec::sort()
RECURSIVE sort(_)
sort(s) == IF Len(s) = 0 THEN <<>> ELSE InsertSorted(s[Len(s)], sort(SubSeq(s, 1, Len(s) - 1)))

\* Vec::dedup(): consecutive equal elements collapse to the first.
RECURSIVE dedup(_)
dedup(s) ==
    IF Len(s) <= 1 THEN s
    ELSE IF s[1] = s[2] THEN dedup(Tail(s))
    ELSE <<s[1]>> \o dedup(Tail(s))

V4(a, b, c, d, p) == [fam |-> 4, ip |-> <<a, b, c, d>>, prefix |-> p]

V6(ip, p) == [fam |-> 6, ip |-> ip, prefix |-> p]

IPV4_PRIVATE_A == V4(10, 0, 0, 0, 8)

IPV4_PRIVATE_B == V4(172, 16, 0, 0, 12)

IPV4_PRIVATE_C == V4(192, 168, 0, 0, 16)

\* Ipv4Network::is_subnet_of
is_subnet_of(net, other) ==
    SeqLeq(other.ip, net.ip) /\ SeqLeq(broadcast(net), broadcast(other))

is_private_network(net) ==
    \/ is_subnet_of(net, IPV4_PRIVATE_A)
    \/ is_subnet_of(net, IPV4_PRIVATE_B)
    \/ is_subnet_of(net, IPV4_PRIVATE_C)

\* IpAddr::is_unspecified
is_unspecified(ip) == \A k \in 1..Len(ip) : ip[k] = 0

IsLocalPrivateV4(net) == net.fam = 4 /\ is_private_network(net)

networks_avail(ips) == SeqMap(normalized, SeqFilter(IsLocalPrivateV4, ips))

normalize_relay_to_unsorted(relay_to) == SeqMap(normalized, relay_to)

normalize_relay_to(relay_to) == dedup(sort(SeqMap(normalized, relay_to)))

Ok(v) == [ok |-> TRUE, networks |-> v, err |-> ""]

Err(e) == [ok |-> FALSE, networks |-> <<>>, err |-> e]

sanitize_destination_networks_unchecked(ips, relay_to) == Ok(networks_avail(ips))

sanitize_destination_networks(ips, relay_to) ==
    LET avail == networks_avail(ips) IN
    IF Len(avail) = 0 THEN Err("no available networks!")
    ELSE IF Len(relay_to) = 0 THEN Err("no relay networks specified!")
    ELSE LET sorted == normalize_relay_to(relay_to)
             networks == IF is_unspecified(sorted[1].ip) THEN avail ELSE sorted
         IN  Ok(dedup(sort(networks)))

(***************************************************************************)
(* The clock and the cancellation token shared by the workers.             *)
(***************************************************************************)
MaxTime == 3

L2MaxTime == 1

\* common::COOLDOWN_DUR, in ticks.
COOLDOWN_DUR == 2

Tick(limit) ==
    /\ now < limit
    /\ now' = now + 1

\* CancellationToken::cancel(), from the signal handler.
Cancel ==
    /\ ~cancelled
    /\ cancelled' = TRUE

\* Instant::elapsed()
elapsed(t) == now - t

\* A HashMap as a function on the set of its keys.
MapRemove(m, k) == [x \in (DOMAIN m) \ {k} |-> m[x]]

MapInsert(m, k, v) == [x \in (DOMAIN m) \cup {k} |-> IF x = k THEN v ELSE m[x]]

EmptyMap == [x \in {} |-> 0]

CHANNEL_CAP == 8

(***************************************************************************)
(* layer2.rs                                                               *)
(***************************************************************************)
ETHERTYPE_WOL == 2114

ETH_HEADER_LEN == 14

\* pnet::datalink::interfaces() of the host.
IFACES ==
    << [name |-> "lo",   index |-> 1, loopback |-> TRUE,  up |-> TRUE,  openable |-> TRUE],
       [name |-> "eth0", index |-> 2, loopback |-> FALSE, up |-> TRUE,  openable |-> TRUE],
       [name |-> "eth1", index |-> 3, loopback |-> FALSE, up |-> TRUE,  openable |-> TRUE],
       [name |-> "eth2", index |-> 4, loopback |-> FALSE, up |-> TRUE,  openable |-> TRUE],
       [name |-> "eth3", index |-> 5, loopback |-> FALSE, up |-> FALSE, openable |-> TRUE],
       [name |-> "tap0", index |-> 6, loopback |-> FALSE, up |-> TRUE,  openable |-> FALSE] >>

IfIdx == {IFACES[k].index : k \in 1..Len(IFACES)}

\* EthernetPacket::new: None for a buffer shorter than the header.
eth_parses(f) == Len(f) >= ETH_HEADER_LEN

get_destination(f) == SubSeq(f, 1, 6)

get_source(f) == SubSeq(f, 7, 12)

get_ethertype(f) == f[13] * 256 + f[14]

eth_payload(f) == SubSeq(f, ETH_HEADER_LEN + 1, Len(f))

\* MacAddr::is_broadcast
is_broadcast(mac) == mac = BROADCAST_MAC

l2_wol_check_any_ethertype(f) ==
    /\ is_broadcast(get_destination(f))
    /\ check_wol_payload(eth_payload(f))

l2_wol_check(f) ==
    /\ get_ethertype(f) = ETHERTYPE_WOL
    /\ is_broadcast(get_destination(f))
    /\ check_wol_payload(eth_payload(f))

\* The interfaces whose name the configuration lists, in the host's order.
l2_interfaces(cfg) ==
    LET Listed(iface) == \E k \in 1..Len(cfg) : cfg[k] = iface.name
    IN  SeqFilter(Listed, IFACES)

\* Those of them the loop does not skip: not loopback, up, channel opened.
l2_opened(cfg) ==
    LET Usable(iface) == ~iface.loopback /\ iface.up /\ iface.openable
    IN  SeqFilter(Usable, l2_interfaces(cfg))

IfaceIndex(iface) == iface.index

NoMsg == <<>>

L2Rest == <<wolVars, sanVars, l4Vars, mainVars>>

\* The head of a capture loop: `if token.is_cancelled() { break; }`, else on
\* to the timed read.
capture_loop_head_unchecked == "read"

capture_loop_head == IF cancelled THEN "done" ELSE "read"

\* The head of a relay loop: the same test, else on to the timed receive.
relay_loop_head == IF cancelled THEN "done" ELSE "recv"

\* l2_worker up to its return: resolve the interfaces, open the channels,
\* spawn one capture thread per opened interface and the relay thread.
l2_worker ==
    /\ l2_ret = <<>>
    /\ IF Len(l2_interfaces(l2_cfg)) = 0
       THEN /\ l2_ret' = <<[ok |-> FALSE, handles |-> 0]>>
            /\ UNCHANGED <<l2_senders, l2_cap, l2_relay_pc>>
       ELSE LET opened == l2_opened(l2_cfg) IN
            /\ l2_senders' = SeqMap(IfaceIndex, opened)
            /\ l2_cap' = [i \in IfIdx |->
                  IF \E k \in 1..Len(opened) : opened[k].index = i
                  THEN [pc |-> capture_loop_head, msg |-> NoMsg]
                  ELSE l2_cap[i]]
            /\ l2_relay_pc' = relay_loop_head
            /\ l2_ret' = <<[ok |-> TRUE, handles |-> Len(opened) + 1]>>
    /\ UNCHANGED <<l2_cfg, l2_wire, l2_chan, l2_cooldown_list, l2_last, l2_received>>
    /\ UNCHANGED <<L2Rest, clockVars>>

\* rx.next() returns a frame: parse, check, build the message; a frame that
\* fails either `continue`s to the loop head.
L2CapFrame(i) ==
    /\ l2_cap[i].pc = "read"
    /\ l2_wire[i] # <<>>
    /\ LET f == Head(l2_wire[i]) IN
       /\ l2_wire' = [l2_wire EXCEPT ![i] = Tail(@)]
       /\ l2_received' = l2_received \cup {f}
       /\ l2_cap' = [l2_cap EXCEPT ![i] =
             IF eth_parses(f) /\ l2_wol_check(f)
             THEN [pc |-> "send",
                   msg |-> <<[iface |-> i, pkt |-> f,
                              target |-> wol_payload_get_target_mac(eth_payload(f))]>>]
             ELSE [pc |-> capture_loop_head, msg |-> NoMsg]]
    /\ UNCHANGED <<l2_cfg, l2_ret, l2_senders, l2_chan, l2_relay_pc,
                   l2_cooldown_list, l2_last>>
    /\ UNCHANGED <<L2Rest, clockVars>>

\* rx.next() returns Err: TimedOut/WouldBlock continue, anything else breaks.
L2CapReadErrOf(i, timeout) ==
    /\ l2_cap[i].pc = "read"
    /\ l2_cap' = [l2_cap EXCEPT ![i].pc = IF timeout THEN capture_loop_head ELSE "done"]
    /\ UNCHANGED <<l2_cfg, l2_wire, l2_ret, l2_senders, l2_chan, l2_relay_pc,
                   l2_cooldown_list, l2_last, l2_received>>
    /\ UNCHANGED <<L2Rest, clockVars>>

L2CapReadErr(i) == \E timeout \in BOOLEAN : L2CapReadErrOf(i, timeout)

\* sync_channel(8): a send finds room while fewer than 8 messages are queued.
l2_channel_unbounded(chan) == TRUE

l2_channel_has_room(chan) == Len(chan) < CHANNEL_CAP

\* mpsc_tx.send(msg).ok(): blocks while the buffer is full and the receiver
\* lives; Err (ignored) once the receiver is dropped.
L2CapSend(i) ==
    /\ l2_cap[i].pc = "send"
    /\ \/ /\ l2_relay_pc # "done"
          /\ l2_channel_has_room(l2_chan)
          /\ l2_chan' = Append(l2_chan, l2_cap[i].msg[1])
       \/ /\ l2_relay_pc = "done"
          /\ UNCHANGED l2_chan
    /\ l2_cap' = [l2_cap EXCEPT ![i] = [pc |-> capture_loop_head, msg |-> NoMsg]]
    /\ UNCHANGED <<l2_cfg, l2_wire, l2_ret, l2_senders, l2_relay_pc,
                   l2_cooldown_list, l2_last, l2_received>>
    /\ UNCHANGED <<L2Rest, clockVars>>

\* Every sender is dropped: l2_worker's own at its return, a thread's at its end.
L2DisconnectedByAny == \E i \in IfIdx : l2_cap[i].pc = "done"

L2Disconnected == \A i \in IfIdx : l2_cap[i].pc \in {"off", "done"}

\* The fan-out loop over senders: every index but the ingress one.
l2_egress_reflecting(senders, msg) == senders

l2_egress(senders, msg) ==
    LET NotIngress(idx) == idx # msg.iface
    IN  SeqFilter(NotIngress, senders)

\* The cooldown test of the relay loop: TRUE when the message is dropped.
l2_suppressed(list, msg) ==
    msg.target \in DOMAIN list /\ elapsed(list[msg.target]) < COOLDOWN_DUR

\* What the relay thread does with a dequeued message: the cooldown list it
\* leaves, and the interfaces it sends the frame on.
l2_relay(list, senders, msg) ==
    IF l2_suppressed(list, msg)
    THEN [list |-> list, relayed |-> FALSE, egress |-> <<>>]
    ELSE [list |-> MapRemove(list, msg.target), relayed |-> TRUE,
          egress |-> l2_egress(senders, msg)]

\* What recv_timeout returns from a buffer that holds messages: the oldest.
l2_recv_newest(chan) == chan[Len(chan)]

l2_recv(chan) == Head(chan)

\* recv_timeout returns Ok(msg): cooldown test, fan-out, back to the loop
\* head. Leaving the loop drops the receiver and what the buffer still holds.
L2RelayMsg ==
    /\ l2_relay_pc = "recv"
    /\ l2_chan # <<>>
    /\ LET msg == l2_recv(l2_chan)
           r == l2_relay(l2_cooldown_list, l2_senders, msg)
       IN  /\ l2_cooldown_list' = r.list
           /\ l2_last' = <<[msg |-> msg, relayed |-> r.relayed,
                           egress |-> r.egress, at |-> now]>>
    /\ l2_relay_pc' = relay_loop_head
    /\ l2_chan' = IF cancelled THEN <<>> ELSE Tail(l2_chan)
    /\ UNCHANGED <<l2_cfg, l2_wire, l2_ret, l2_senders, l2_cap, l2_received>>
    /\ UNCHANGED <<L2Rest, clockVars>>

\* recv_timeout returns Err: Timeout continues, Disconnected breaks.
L2RelayRecvErr ==
    /\ l2_relay_pc = "recv"
    /\ l2_chan = <<>>
    /\ l2_relay_pc' = IF L2Disconnected THEN "done" ELSE relay_loop_head
    /\ UNCHANGED <<l2_cfg, l2_wire, l2_ret, l2_senders, l2_cap, l2_chan,
                   l2_cooldown_list, l2_last, l2_received>>
    /\ UNCHANGED <<L2Rest, clockVars>>

L2Started == l2_ret # <<>> /\ l2_ret[1].ok

L2Tick == L2Started /\ Tick(L2MaxTime) /\ UNCHANGED <<cancelled, l2Vars, L2Rest>>

L2Cancel == L2Started /\ Cancel /\ UNCHANGED <<now, l2Vars, L2Rest>>

(***************************************************************************)
(* layer4.rs: l4_worker                                                    *)
(***************************************************************************)
IPV4_UNSPEC == <<0, 0, 0, 0>>

RECV_BUF_LEN == 128

RELAY_PORT == 9

\* The capture tasks, by position in the collapsed listen_on.
Listeners == {1, 2}

L4Rest == <<wolVars, l2Vars, mainVars>>

L4Cfg == <<host_ips, san_relay_to, l4_listen_on>>

\* `cfg.listen_on.iter().find(|s| s.ip() == IPV4_UNSPEC)`: the first
\* unspecified address alone, else the whole list.
find_unspec_nothing(addrs) == <<>>

RECURSIVE find_unspec(_)
find_unspec(addrs) ==
    IF Len(addrs) = 0 THEN <<>>
    ELSE IF addrs[1].ip = IPV4_UNSPEC THEN <<addrs[1]>>
    ELSE find_unspec(Tail(addrs))

l4_listen_addrs(listen_on) ==
    IF find_unspec(listen_on) # <<>> THEN find_unspec(listen_on) ELSE listen_on

\* l4_worker up to its return: collapse listen_on, sanitize relay_to (`?`
\* returns its error), spawn the capture tasks and the relay task.
l4_worker ==
    /\ l4_ret = <<>>
    /\ san_result = <<>>
    /\ LET res == sanitize_destination_networks(host_ips, san_relay_to)
           addrs == l4_listen_addrs(l4_listen_on)
       IN  /\ san_result' = <<res>>
           /\ l4_ret' = <<[ok |-> res.ok, tasks |-> IF res.ok THEN Len(addrs) + 1 ELSE 0]>>
           /\ IF res.ok
              THEN /\ l4_addrs' = addrs
                   /\ l4_networks' = res.networks
                   /\ l4_cap' = [k \in Listeners |->
                         IF k <= Len(addrs) THEN [pc |-> "bind", msg |-> NoMsg]
                         ELSE l4_cap[k]]
                   /\ l4_relay' = [l4_relay EXCEPT !.pc = "bind"]
              ELSE UNCHANGED <<l4_addrs, l4_networks, l4_cap, l4_relay>>
    /\ UNCHANGED <<L4Cfg, l4_wire, l4_chan, l4_cooldown_list, l4_last, l4_received>>
    /\ UNCHANGED <<L4Rest, clockVars>>

\* UdpSocket::bind(addr): Err logs and returns from the task.
L4CapBind(k) ==
    /\ l4_cap[k].pc = "bind"
    /\ \E bound \in BOOLEAN :
          l4_cap' = [l4_cap EXCEPT ![k].pc = IF bound THEN capture_loop_head ELSE "done"]
    /\ UNCHANGED <<L4Cfg, san_result, l4_wire, l4_ret, l4_addrs, l4_networks, l4_chan,
                   l4_relay, l4_cooldown_list, l4_last, l4_received>>
    /\ UNCHANGED <<L4Rest, clockVars>>

\* recv_from(&mut buf): the datagram, cut to the buffer's 128 bytes.
recv_from(d) == SubSeq(d.data, 1, Min(Len(d.data), RECV_BUF_LEN))

\* The timed recv_from returns a datagram: check it, build the message.
L4CapDatagram(k) ==
    /\ l4_cap[k].pc = "read"
    /\ l4_wire[k] # <<>>
    /\ LET d == Head(l4_wire[k])
           buf == recv_from(d)
       IN  /\ l4_wire' = [l4_wire EXCEPT ![k] = Tail(@)]
           /\ IF check_wol_payload(buf)
              THEN /\ l4_cap' = [l4_cap EXCEPT ![k] =
                         [pc |-> "send",
                          msg |-> <<[src |-> d.from, msg |-> buf,
                                     target |-> wol_payload_get_target_mac(buf)]>>]]
                   /\ l4_received' = l4_received \cup {d.data}
              ELSE /\ l4_cap' = [l4_cap EXCEPT ![k] =
                         [pc |-> capture_loop_head, msg |-> NoMsg]]
                   /\ UNCHANGED l4_received
    /\ UNCHANGED <<L4Cfg, san_result, l4_ret, l4_addrs, l4_networks, l4_chan,
                   l4_relay, l4_cooldown_list, l4_last>>
    /\ UNCHANGED <<L4Rest, clockVars>>

\* The timed recv_from returns an error or times out: `continue`.
L4CapRecvErr(k) ==
    /\ l4_cap[k].pc = "read"
    /\ l4_cap' = [l4_cap EXCEPT ![k].pc = capture_loop_head]
    /\ UNCHANGED <<L4Cfg, san_result, l4_wire, l4_ret, l4_addrs, l4_networks, l4_chan,
                   l4_relay, l4_cooldown_list, l4_last, l4_received>>
    /\ UNCHANGED <<L4Rest, clockVars>>

\* mpsc::channel(8): a send finds room while fewer than 8 messages are queued.
l4_channel_has_room(chan) == Len(chan) < CHANNEL_CAP

\* mpsc_tx.send(msg).await.ok(): suspends while the buffer is full and the
\* receiver lives; Err (ignored) once the receiver is dropped.
L4CapSend(k) ==
    /\ l4_cap[k].pc = "send"
    /\ \/ /\ l4_relay.pc # "done"
          /\ l4_channel_has_room(l4_chan)
          /\ l4_chan' = Append(l4_chan, l4_cap[k].msg[1])
       \/ /\ l4_relay.pc = "done"
          /\ UNCHANGED l4_chan
    /\ l4_cap' = [l4_cap EXCEPT ![k] = [pc |-> capture_loop_head, msg |-> NoMsg]]
    /\ UNCHANGED <<L4Cfg, san_result, l4_wire, l4_ret, l4_addrs, l4_networks,
                   l4_relay, l4_cooldown_list, l4_last, l4_received>>
    /\ UNCHANGED <<L4Rest, clockVars>>

\* Every sender is dropped: l4_worker's own at its return, a task's at its end.
L4Disconnected == \A k \in Listeners : l4_cap[k].pc \in {"off", "done"}

RelayIdle(pc) == [pc |-> pc, msg |-> NoMsg, k |-> 0]

\* The relay task's socket: bind to 0.0.0.0:0 and set_broadcast(true); Err
\* logs and returns from the task, which drops the receiver.
L4RelayBind ==
    /\ l4_relay.pc = "bind"
    /\ \E bound \in BOOLEAN :
          /\ l4_relay' = RelayIdle(IF bound THEN relay_loop_head ELSE "done")
          /\ l4_chan' = IF bound /\ ~cancelled THEN l4_chan ELSE <<>>
    /\ UNCHANGED <<L4Cfg, san_result, l4_wire, l4_ret, l4_addrs, l4_networks, l4_cap,
                   l4_cooldown_list, l4_last, l4_received>>
    /\ UNCHANGED <<L4Rest, clockVars>>

\* The cooldown test of the relay loop: TRUE when the message is dropped.
l4_suppressed(list, msg) ==
    msg.target \in DOMAIN list /\ elapsed(list[msg.target]) < COOLDOWN_DUR

\* The `continue` of a dropped message: the list is left as it is.
l4_dropped_refreshing(list, target) == MapInsert(list, target, now)

l4_dropped(list, target) == list

\* `cooldown_list.insert(msg.target, Instant::now())`
l4_stamp_forgotten(list, target) == list

l4_stamp(list, target) == MapInsert(list, target, now)

\* The datagram one pass of the fan-out loop sends.
l4_send_to_network_address(net, msg) ==
    [to |-> [ip |-> network(net), port |-> RELAY_PORT], body |-> msg.msg]

l4_send_to(net, msg) ==
    [to |-> [ip |-> broadcast(net), port |-> RELAY_PORT], body |-> msg.msg]

\* The timed recv returns Some(msg): the cooldown test; a dropped message
\* `continue`s to the loop head, another one enters the fan-out loop.
L4RelayMsg ==
    /\ l4_relay.pc = "recv"
    /\ l4_chan # <<>>
    /\ LET msg == Head(l4_chan) IN
       IF l4_suppressed(l4_cooldown_list, msg)
       THEN /\ l4_relay' = RelayIdle(relay_loop_head)
            /\ l4_chan' = IF cancelled THEN <<>> ELSE Tail(l4_chan)
            /\ l4_last' = <<[msg |-> msg, relayed |-> FALSE, sent |-> <<>>, stamps |-> 0]>>
            /\ l4_cooldown_list' = l4_dropped(l4_cooldown_list, msg.target)
       ELSE /\ l4_relay' = [pc |-> "fan", msg |-> <<msg>>, k |-> 1]
            /\ l4_chan' = Tail(l4_chan)
            /\ l4_last' = <<[msg |-> msg, relayed |-> TRUE, sent |-> <<>>, stamps |-> 0]>>
            /\ l4_cooldown_list' = MapRemove(l4_cooldown_list, msg.target)
    /\ UNCHANGED <<L4Cfg, san_result, l4_wire, l4_ret, l4_addrs, l4_networks, l4_cap,
                   l4_received>>
    /\ UNCHANGED <<L4Rest, clockVars>>

\* One `sock.send_to(..).await.ok()` of the fan-out loop; after the last one
\* the timestamp is inserted and the loop head follows.
L4RelaySend ==
    /\ l4_relay.pc = "fan"
    /\ LET msg == l4_relay.msg[1]
           k == l4_relay.k
           sent == Append(l4_last[1].sent, l4_send_to(l4_networks[k], msg))
       IN  IF k < Len(l4_networks)
           THEN /\ l4_relay' = [l4_relay EXCEPT !.k = k + 1]
                /\ l4_last' = <<[l4_last[1] EXCEPT !.sent = sent]>>
                /\ UNCHANGED <<l4_chan, l4_cooldown_list>>
           ELSE /\ l4_relay' = RelayIdle(relay_loop_head)
                /\ l4_cooldown_list' = l4_stamp(l4_cooldown_list, msg.target)
                /\ l4_last' = <<[l4_last[1] EXCEPT !.sent = sent, !.stamps = @ + 1]>>
                /\ l4_chan' = IF cancelled THEN <<>> ELSE l4_chan
    /\ UNCHANGED <<L4Cfg, san_result, l4_wire, l4_ret, l4_addrs, l4_networks, l4_cap,
                   l4_received>>
    /\ UNCHANGED <<L4Rest, clockVars>>

\* The timed recv times out (`continue`) or returns None (`break`).
L4RelayRecvErr ==
    /\ l4_relay.pc = "recv"
    /\ l4_chan = <<>>
    /\ l4_relay' = RelayIdle(IF L4Disconnected THEN "done" ELSE relay_loop_head)
    /\ UNCHANGED <<L4Cfg, san_result, l4_wire, l4_ret, l4_addrs, l4_networks, l4_cap,
                   l4_chan, l4_cooldown_list, l4_last, l4_received>>
    /\ UNCHANGED <<L4Rest, clockVars>>

L4Started == l4_ret # <<>> /\ l4_ret[1].ok

L4Tick == L4Started /\ Tick(MaxTime) /\ UNCHANGED <<cancelled, l4Vars, sanVars, L4Rest>>

L4Cancel == L4Started /\ Cancel /\ UNCHANGED <<now, l4Vars, sanVars, L4Rest>>

(***************************************************************************)
(* main.rs: the entry point's own l2_worker                                *)
(***************************************************************************)
MainRest == <<wolVars, sanVars, l2Vars, l4Vars>>

\* main.rs:47-51; check_wol_payload of main.rs:30-45 has the text of the one
\* in common.rs.
eth_wol_check(f) ==
    /\ get_ethertype(f) = ETHERTYPE_WOL
    /\ is_broadcast(get_destination(f))
    /\ check_wol_payload(eth_payload(f))

\* The interfaces the loop does not skip: every interface of the host that
\* is not loopback, is up, and whose channel opens.
main_opened ==
    LET Usable(iface) == ~iface.loopback /\ iface.up /\ iface.openable
    IN  SeqFilter(Usable, IFACES)

\* l2_worker up to its return: open the channels, spawn one capture thread
\* per opened interface, which starts in rx.next(), and the relay thread.
main_l2_worker ==
    /\ m_ret = <<>>
    /\ m_senders' = SeqMap(IfaceIndex, main_opened)
    /\ m_cap' = [i \in IfIdx |->
          IF \E k \in 1..Len(main_opened) : main_opened[k].index = i
          THEN [pc |-> "read", msg |-> NoMsg]
          ELSE m_cap[i]]
    /\ m_relay_pc' = relay_loop_head
    /\ m_ret' = <<Len(main_opened) + 1>>
    /\ UNCHANGED <<m_wire, m_chan, m_last>>
    /\ UNCHANGED <<MainRest, clockVars>>

\* rx.next() returns a frame (Config::default(): the read has no timeout):
\* the token test comes first, then parse and check.
MainCapFrame(i) ==
    /\ m_cap[i].pc = "read"
    /\ m_wire[i] # <<>>
    /\ LET f == Head(m_wire[i]) IN
       /\ m_wire' = [m_wire EXCEPT ![i] = Tail(@)]
       /\ m_cap' = [m_cap EXCEPT ![i] =
             IF cancelled THEN [pc |-> "done", msg |-> NoMsg]
             ELSE IF eth_parses(f) /\ eth_wol_check(f)
             THEN [pc |-> "send", msg |-> <<[iface |-> i, pkt |-> f]>>]
             ELSE [pc |-> "read", msg |-> NoMsg]]
    /\ UNCHANGED <<m_ret, m_senders, m_chan, m_relay_pc, m_last>>
    /\ UNCHANGED <<MainRest, clockVars>>

\* rx.next() returns Err: `while let Ok(..)` ends the loop.
MainCapReadErr(i) ==
    /\ m_cap[i].pc = "read"
    /\ m_cap' = [m_cap EXCEPT ![i].pc = "done"]
    /\ UNCHANGED <<m_wire, m_ret, m_senders, m_chan, m_relay_pc, m_last>>
    /\ UNCHANGED <<MainRest, clockVars>>

\* mpsc_tx.send(msg).unwrap(): blocks while the buffer is full and the
\* receiver lives; panics once the receiver is dropped.
MainCapSend(i) ==
    /\ m_cap[i].pc = "send"
    /\ \/ /\ m_relay_pc # "done"
          /\ Len(m_chan) < CHANNEL_CAP
          /\ m_chan' = Append(m_chan, m_cap[i].msg[1])
          /\ m_cap' = [m_cap EXCEPT ![i] = [pc |-> "read", msg |-> NoMsg]]
       \/ /\ m_relay_pc = "done"
          /\ m_cap' = [m_cap EXCEPT ![i] = [pc |-> "panicked", msg |-> NoMsg]]
          /\ UNCHANGED m_chan
    /\ UNCHANGED <<m_wire, m_ret, m_senders, m_relay_pc, m_last>>
    /\ UNCHANGED <<MainRest, clockVars>>

\* Every sender is dropped: l2_worker's own at its return, a thread's at its end.
MainDisconnected == \A i \in IfIdx : m_cap[i].pc \in {"off", "done", "panicked"}

\* recv() returns Ok(msg): fan-out to every sender but the ingress one, back
\* to the loop head. Leaving the loop drops the receiver and the buffer.
MainRelayMsg ==
    /\ m_relay_pc = "recv"
    /\ m_chan # <<>>
    /\ m_last' = <<[msg |-> Head(m_chan), egress |-> l2_egress(m_senders, Head(m_chan))]>>
    /\ m_relay_pc' = relay_loop_head
    /\ m_chan' = IF cancelled THEN <<>> ELSE Tail(m_chan)
    /\ UNCHANGED <<m_wire, m_ret, m_senders, m_cap>>
    /\ UNCHANGED <<MainRest, clockVars>>

\* recv() returns Err, which it does only when every sender is gone: the
\* receive has no timeout.
MainRelayRecvErr ==
    /\ m_relay_pc = "recv"
    /\ m_chan = <<>>
    /\ MainDisconnected
    /\ m_relay_pc' = "done"
    /\ UNCHANGED <<m_wire, m_ret, m_senders, m_cap, m_chan, m_last>>
    /\ UNCHANGED <<MainRest, clockVars>>

MainStarted == m_ret # <<>>

MainCancel == MainStarted /\ Cancel /\ UNCHANGED <<now, mainVars, MainRest>>

(***************************************************************************)
(* A component that is not under test rests in its idle state.             *)
(***************************************************************************)
\* The validator is not under test.
WolIdle ==
    /\ payload = <<>>
    /\ verdict = <<[valid |-> FALSE, target |-> <<>>]>>

SanIdle ==
    /\ host_ips = <<>>
    /\ san_relay_to = <<>>
    /\ san_result = <<Err("")>>

ClockIdle ==
    /\ now = 0
    /\ cancelled = FALSE

L2Idle ==
    /\ l2_cfg = <<>>
    /\ l2_wire = [i \in IfIdx |-> <<>>]
    /\ l2_ret = <<[ok |-> FALSE, handles |-> 0]>>
    /\ l2_senders = <<>>
    /\ l2_cap = [i \in IfIdx |-> [pc |-> "off", msg |-> NoMsg]]
    /\ l2_chan = <<>>
    /\ l2_relay_pc = "off"
    /\ l2_cooldown_list = EmptyMap
    /\ l2_last = <<>>
    /\ l2_received = {}

L4Idle ==
    /\ l4_listen_on = <<>>
    /\ l4_wire = [k \in Listeners |-> <<>>]
    /\ l4_ret = <<[ok |-> FALSE, tasks |-> 0]>>
    /\ l4_addrs = <<>>
    /\ l4_networks = <<>>
    /\ l4_cap = [k \in Listeners |-> [pc |-> "off", msg |-> NoMsg]]
    /\ l4_chan = <<>>
    /\ l4_relay = RelayIdle("off")
    /\ l4_cooldown_list = EmptyMap
    /\ l4_last = <<>>
    /\ l4_received = {}

MainIdle ==
    /\ m_wire = [i \in IfIdx |-> <<>>]
    /\ m_ret = <<0>>
    /\ m_senders = <<>>
    /\ m_cap = [i \in IfIdx |-> [pc |-> "off", msg |-> NoMsg]]
    /\ m_chan = <<>>
    /\ m_relay_pc = "off"
    /\ m_last = <<>>

(***************************************************************************)
(* Buffers the validator is tried on: a synchronization block, a number of *)
(* repetitions of one address, a tail, and optionally one byte overwritten.*)
(***************************************************************************)
MaxReps == 18

MaxTail == 6

MAC_A == <<2, 17, 34, 51, 68, 85>>

MAC_B == <<2, 17, 34, 51, 68, 86>>

SyncBlocks == {BROADCAST_MAC, <<255, 255, 255, 255, 255, 254>>}

MacPool == {MAC_A, BROADCAST_MAC}

\* Tails: a prefix of the address itself, or password-like bytes.
Tails(mac) ==
    {SubSeq(mac, 1, k) : k \in {j \in {0, 4, 6} : j <= MaxTail}}
        \cup {SubSeq(<<9, 9, 9, 9, 9, 9, 9>>, 1, k) :
                k \in {j \in {1, 4, 6, 7} : j <= MaxTail}}

OverwritePositions == {0, 7, 13, 18, 97, 102, 103}

PayloadsOf(mac) ==
    {Overwrite(sync \o Repeat(mac, reps) \o tail, pos) :
        sync \in SyncBlocks, reps \in 0..MaxReps,
        tail \in Tails(mac), pos \in OverwritePositions}

PayloadInputs == UNION {PayloadsOf(mac) : mac \in MacPool}

InitWol ==
    /\ payload \in PayloadInputs
    /\ verdict = <<>>
    /\ SanIdle
    /\ ClockIdle
    /\ L2Idle
    /\ L4Idle
    /\ MainIdle

Validate ==
    /\ verdict = <<>>
    /\ verdict' =
          IF check_wol_payload(payload)
          THEN <<[valid |-> TRUE, target |-> wol_payload_get_target_mac(payload)]>>
          ELSE <<[valid |-> FALSE, target |-> <<>>]>>
    /\ UNCHANGED <<payload, sanVars, clockVars, l2Vars, l4Vars, mainVars>>

NextWol == Validate

SpecWol == InitWol /\ [][NextWol]_vars

(***************************************************************************)
(* Hosts and destination lists the sanitizer is tried on.                  *)
(***************************************************************************)
MaxIps == 2

MaxRelayTo == 2

LinkLocalV6 == <<254, 128, 0, 0, 0, 0, 0, 0, 0, 0, 0, 0, 0, 0, 0, 1>>

HostIpPool ==
    {V4(10, 1, 0, 5, 24), V4(10, 1, 0, 9, 24), V4(192, 168, 5, 1, 24),
     V4(127, 0, 0, 1, 8), V4(8, 8, 4, 4, 24), V6(LinkLocalV6, 64)}

RelayPool ==
    {V4(0, 0, 0, 0, 0), V4(10, 1, 0, 0, 24), V4(10, 1, 0, 77, 24),
     V4(192, 168, 9, 0, 24), V4(8, 8, 8, 0, 24), V4(0, 0, 0, 0, 8)}

InitSan ==
    /\ host_ips \in SeqsUpTo(HostIpPool, MaxIps)
    /\ san_relay_to \in SeqsUpTo(RelayPool, MaxRelayTo)
    /\ san_result = <<>>
    /\ WolIdle
    /\ ClockIdle
    /\ L2Idle
    /\ L4Idle
    /\ MainIdle

Sanitize ==
    /\ san_result = <<>>
    /\ san_result' = <<sanitize_destination_networks(host_ips, san_relay_to)>>
    /\ UNCHANGED <<host_ips, san_relay_to, wolVars, clockVars, l2Vars, l4Vars, mainVars>>

NextSan == Sanitize

SpecSan == InitSan /\ [][NextSan]_vars

(***************************************************************************)
(* Link-layer configurations and traffic.                                  *)
(***************************************************************************)
MaxTrace == 2

MaxBurst == 9

SRC_MAC == <<2, 0, 0, 0, 0, 1>>

MagicPacket(mac) == BROADCAST_MAC \o Repeat(mac, 16)

EthFrame(dst, ethertype, body) ==
    dst \o SRC_MAC \o <<ethertype \div 256, ethertype % 256>> \o body

WolFrame(mac) == EthFrame(BROADCAST_MAC, ETHERTYPE_WOL, MagicPacket(mac))

\* Frames that must not be relayed: an IPv4 ethertype, a unicast destination,
\* a body whose last repetition differs, a buffer shorter than the header.
OtherFrames ==
    {EthFrame(BROADCAST_MAC, 2048, MagicPacket(MAC_A)),
     EthFrame(MAC_B, ETHERTYPE_WOL, MagicPacket(MAC_A)),
     EthFrame(BROADCAST_MAC, ETHERTYPE_WOL, Overwrite(MagicPacket(MAC_A), 102)),
     <<255, 255, 255>>}

WolFrames == {WolFrame(MAC_A), WolFrame(MAC_B)}

L2Configs ==
    {<<>>, <<"wlan9">>, <<"lo", "eth3", "tap0">>, <<"eth0">>,
     <<"eth1", "eth0">>, <<"lo", "eth0", "eth1", "eth2">>}

Silent == [i \in IfIdx |-> <<>>]

Segments == {2, 3, 4}

\* One segment delivers a short trace of any frames.
L2OneTalker ==
    {[Silent EXCEPT ![i] = t] :
        i \in {2, 3},
        t \in SeqsUpTo(WolFrames, MaxTrace) \cup {<<f>> : f \in OtherFrames}}

\* Every segment hears the same broadcast.
L2Echo ==
    {[i \in IfIdx |-> IF i \in Segments THEN <<f>> ELSE <<>>] : f \in WolFrames}

\* One segment delivers a burst, another one frame.
L2Burst ==
    {[Silent EXCEPT ![2] = Repeat(<<WolFrame(MAC_A)>>, MaxBurst),
                    ![3] = <<WolFrame(MAC_A)>>]}

\* Two segments deliver at once, one of them two different frames.
L2TwoTalkers ==
    {[Silent EXCEPT ![2] = <<WolFrame(MAC_A), WolFrame(MAC_B)>>,
                    ![3] = <<WolFrame(MAC_B)>>]}

\* Every configuration under light traffic, the two-interface one under the
\* burst and under two talkers.
L2Scenarios ==
    (L2Configs \X (L2OneTalker \cup L2Echo))
        \cup ({<<"eth1", "eth0">>} \X (L2Burst \cup L2TwoTalkers))

InitL2 ==
    /\ \E sc \in L2Scenarios :
          /\ l2_cfg = sc[1]
          /\ l2_wire = sc[2]
    /\ l2_ret = <<>>
    /\ l2_senders = <<>>
    /\ l2_cap = [i \in IfIdx |-> [pc |-> "off", msg |-> NoMsg]]
    /\ l2_chan = <<>>
    /\ l2_relay_pc = "off"
    /\ l2_cooldown_list = EmptyMap
    /\ l2_last = <<>>
    /\ l2_received = {}
    /\ ClockIdle
    /\ WolIdle
    /\ SanIdle
    /\ L4Idle
    /\ MainIdle

NextL2 ==
    \/ l2_worker
    \/ \E i \in IfIdx : L2CapFrame(i)
    \/ \E i \in IfIdx : L2CapReadErr(i)
    \/ \E i \in IfIdx : L2CapSend(i)
    \/ L2RelayMsg
    \/ L2RelayRecvErr
    \/ L2Tick
    \/ L2Cancel

SpecL2 == InitL2 /\ [][NextL2]_vars

(***************************************************************************)
(* Transport-layer configurations and traffic.                             *)
(***************************************************************************)
SockAddr(a, b, c, d, port) == [ip |-> <<a, b, c, d>>, port |-> port]

ADDR_1 == SockAddr(10, 1, 0, 5, 9)

ADDR_2 == SockAddr(192, 168, 5, 1, 9)

ADDR_ANY == SockAddr(0, 0, 0, 0, 7)

SENDER == SockAddr(10, 1, 0, 77, 40000)

HOST == <<V4(10, 1, 0, 5, 24), V4(192, 168, 5, 1, 24)>>

\* [ips, relay_to, listen_on]: two that fail in the sanitizer, then one and
\* two listeners, the wildcard among three addresses, and no listener.
L4Configs ==
    {[ips |-> <<V4(127, 0, 0, 1, 8)>>, relay_to |-> <<V4(0, 0, 0, 0, 0)>>,
      listen_on |-> <<ADDR_1>>],
     [ips |-> HOST, relay_to |-> <<>>, listen_on |-> <<ADDR_1>>],
     [ips |-> HOST, relay_to |-> <<V4(0, 0, 0, 0, 0)>>, listen_on |-> <<ADDR_1>>],
     [ips |-> HOST, relay_to |-> <<V4(10, 1, 0, 77, 24)>>,
      listen_on |-> <<ADDR_1, ADDR_2>>],
     [ips |-> HOST, relay_to |-> <<V4(192, 168, 9, 0, 24), V4(0, 0, 0, 0, 0)>>,
      listen_on |-> <<ADDR_1, ADDR_ANY, ADDR_2>>],
     [ips |-> HOST, relay_to |-> <<V4(10, 1, 0, 0, 24)>>, listen_on |-> <<>>]}

Datagram(body) == [from |-> SENDER, data |-> body]

WolDatagrams == {Datagram(MagicPacket(MAC_A)), Datagram(MagicPacket(MAC_B))}

\* Datagrams that must not be relayed: one byte short, a repetition that
\* differs, a password after the repetitions, more bytes than the buffer.
OtherDatagrams ==
    {Datagram(SubSeq(MagicPacket(MAC_A), 1, 101)),
     Datagram(Overwrite(MagicPacket(MAC_A), 50)),
     Datagram(MagicPacket(MAC_A) \o <<9, 9, 9, 9>>),
     Datagram(BROADCAST_MAC \o Repeat(MAC_A, 21))}

Quiet == [k \in Listeners |-> <<>>]

L4OneTalker ==
    {[Quiet EXCEPT ![k] = t] :
        k \in Listeners,
        t \in SeqsUpTo(WolDatagrams, MaxTrace) \cup {<<d>> : d \in OtherDatagrams}}

L4Echo == {[k \in Listeners |-> <<d>>] : d \in WolDatagrams}

L4Burst ==
    {[Quiet EXCEPT ![1] = Repeat(<<Datagram(MagicPacket(MAC_A))>>, MaxBurst),
                   ![2] = <<Datagram(MagicPacket(MAC_A))>>]}

\* Every configuration under light traffic, the two-listener one under the burst.
L4Scenarios ==
    (L4Configs \X (L4OneTalker \cup L4Echo))
        \cup ({c \in L4Configs : Len(c.listen_on) = 2} \X L4Burst)

InitL4 ==
    /\ \E sc \in L4Scenarios :
          /\ host_ips = sc[1].ips
          /\ san_relay_to = sc[1].relay_to
          /\ l4_listen_on = sc[1].listen_on
          /\ l4_wire = sc[2]
    /\ san_result = <<>>
    /\ l4_ret = <<>>
    /\ l4_addrs = <<>>
    /\ l4_networks = <<>>
    /\ l4_cap = [k \in Listeners |-> [pc |-> "off", msg |-> NoMsg]]
    /\ l4_chan = <<>>
    /\ l4_relay = RelayIdle("off")
    /\ l4_cooldown_list = EmptyMap
    /\ l4_last = <<>>
    /\ l4_received = {}
    /\ ClockIdle
    /\ WolIdle
    /\ L2Idle
    /\ MainIdle

NextL4 ==
    \/ l4_worker
    \/ \E k \in Listeners : L4CapBind(k)
    \/ \E k \in Listeners : L4CapDatagram(k)
    \/ \E k \in Listeners : L4CapRecvErr(k)
    \/ \E k \in Listeners : L4CapSend(k)
    \/ L4RelayBind
    \/ L4RelayMsg
    \/ L4RelaySend
    \/ L4RelayRecvErr
    \/ L4Tick
    \/ L4Cancel

SpecL4 == InitL4 /\ [][NextL4]_vars

(***************************************************************************)
(* Traffic for the entry point's worker (`--raw`).                         *)
(***************************************************************************)
MainWires == {Silent} \cup L2OneTalker \cup L2Echo \cup L2TwoTalkers

InitMain ==
    /\ m_wire \in MainWires
    /\ m_ret = <<>>
    /\ m_senders = <<>>
    /\ m_cap = [i \in IfIdx |-> [pc |-> "off", msg |-> NoMsg]]
    /\ m_chan = <<>>
    /\ m_relay_pc = "off"
    /\ m_last = <<>>
    /\ ClockIdle
    /\ WolIdle
    /\ SanIdle
    /\ L2Idle
    /\ L4Idle

NextMain ==
    \/ main_l2_worker
    \/ \E i \in IfIdx : MainCapFrame(i)
    \/ \E i \in IfIdx : MainCapReadErr(i)
    \/ \E i \in IfIdx : MainCapSend(i)
    \/ MainRelayMsg
    \/ MainRelayRecvErr
    \/ MainCancel

SpecMain == InitMain /\ [][NextMain]_vars

(***************************************************************************)
(* The program with one of its two layers configured.                      *)
(***************************************************************************)
Init == InitL2 \/ InitL4

Next == NextL2 \/ NextL4

Spec == Init /\ [][Next]_vars

\* A step of some thread or task. A read is only required to time out,
\* never to fail, and nothing requires the clock or the signal to move.
UnitStep ==
    \/ \E i \in IfIdx : L2CapFrame(i) \/ L2CapReadErrOf(i, TRUE) \/ L2CapSend(i)
    \/ L2RelayMsg
    \/ L2RelayRecvErr
    \/ \E k \in Listeners : L4CapBind(k) \/ L4CapDatagram(k) \/ L4CapRecvErr(k) \/ L4CapSend(k)
    \/ L4RelayBind
    \/ L4RelayMsg
    \/ L4RelaySend
    \/ L4RelayRecvErr

\* Threads are scheduled preemptively and tasks by the runtime, and every
\* timed wait returns: while some unit can take a step, one of them does.
\* This is weaker than fairness to each unit, which the scheduling also gives.
Fairness == WF_vars(UnitStep)

FairSpec == Spec /\ Fairness

(***************************************************************************)
(* Claims                                                                  *)
(***************************************************************************)
\* Block i (0-based) of the partition of p into 6-byte blocks, and their number.
Blk(p, i) == SubSeq(p, 6 * i + 1, Min(6 * i + 6, Len(p)))

NBlk(p) == (Len(p) + 5) \div 6

\* C6: the validator accepts a buffer exactly when it has at least 102 bytes,
\* its block 0 is FF:FF:FF:FF:FF:FF and every block of its 6-byte partition
\* from index 2 to the end equals block 1; the target returned for an accepted
\* buffer is block 1 (bytes 6..11).
C6_ValidatorContract ==
    verdict # <<>> =>
        /\ verdict[1].valid <=>
              /\ Len(payload) >= 102
              /\ Blk(payload, 0) = <<255, 255, 255, 255, 255, 255>>
              /\ \A i \in 2..(NBlk(payload) - 1) : Blk(payload, i) = Blk(payload, 1)
        /\ verdict[1].valid => verdict[1].target = Blk(payload, 1)

\* C6 witness: a buffer longer than 102 bytes has been accepted.
C6_Witness ==
    /\ verdict # <<>>
    /\ verdict[1].valid
    /\ Len(payload) > 102
    /\ verdict[1].target = MAC_A

\* C7: a buffer whose first 102 bytes are the synchronization pattern and 16
\* repetitions of one address is reported valid whatever bytes follow.
C7_TrailingBytesIgnored ==
    (/\ verdict # <<>>
     /\ Len(payload) >= 102
     /\ SubSeq(payload, 1, 102) =
            <<255, 255, 255, 255, 255, 255>> \o Repeat(Blk(payload, 1), 16))
        => verdict[1].valid

\* A network that lies inside 10.0.0.0/8, 172.16.0.0/12 or 192.168.0.0/16.
InPrivateRange(net) ==
    /\ net.fam = 4
    /\ \/ net.ip[1] = 10 /\ net.prefix >= 8
       \/ net.ip[1] = 172 /\ net.ip[2] \in 16..31 /\ net.prefix >= 12
       \/ net.ip[1] = 192 /\ net.ip[2] = 168 /\ net.prefix >= 16

SeqRange(s) == {s[k] : k \in 1..Len(s)}

\* The locally attached private IPv4 networks, as network address + prefix.
LocalPrivateNetworks ==
    {normalized(n) : n \in {m \in SeqRange(host_ips) : InPrivateRange(m)}}

\* Some configured destination normalizes to 0.0.0.0/0, the least network of
\* the order, so the normalized, sorted list starts with it.
StartsWithWildcard ==
    \E k \in 1..Len(san_relay_to) :
        san_relay_to[k].fam = 4 /\ san_relay_to[k].prefix = 0

StrictlySorted(s) == \A k \in 1..(Len(s) - 1) : NetLess(s[k], s[k + 1])

\* C10: when the normalized, sorted destination list starts with 0.0.0.0/0,
\* the sanitizer's output is exactly the set of locally attached private IPv4
\* networks, sorted, without duplicates, and holds no explicitly listed
\* destination outside that set.
C10_WildcardIsLocalPrivate ==
    (san_result # <<>> /\ StartsWithWildcard /\ san_result[1].ok) =>
        LET out == san_result[1].networks IN
        /\ SeqRange(out) = LocalPrivateNetworks
        /\ StrictlySorted(out)
        /\ \A k \in 1..Len(san_relay_to) :
              normalized(san_relay_to[k]) \notin LocalPrivateNetworks
                  => normalized(san_relay_to[k]) \notin SeqRange(out)

\* C10 witness: the wildcard is listed after an explicit destination that is
\* not attached, two local addresses share one network, and the call returned.
C10_Witness ==
    /\ san_result # <<>>
    /\ san_result[1].ok
    /\ san_relay_to = <<V4(192, 168, 9, 0, 24), V4(0, 0, 0, 0, 0)>>
    /\ host_ips = <<V4(10, 1, 0, 9, 24), V4(10, 1, 0, 5, 24)>>
    /\ san_result[1].networks = <<V4(10, 1, 0, 0, 24)>>

(***************************************************************************)
(* Link layer.                                                             *)
(***************************************************************************)
\* The relay thread takes a message off the channel in this step.
L2Dequeues == l2_relay_pc = "recv" /\ Len(l2_chan') < Len(l2_chan)

\* C1: once the relay thread has retransmitted a frame for target m, a
\* further frame for m that it dequeues less than the cooldown window later
\* is not retransmitted on any interface.
C1_SecondFrameDropped ==
    [][(/\ L2Dequeues
        /\ l2_last # <<>>
        /\ l2_last[1].egress # <<>>
        /\ l2_last[1].msg.target = Head(l2_chan).target
        /\ now - l2_last[1].at < COOLDOWN_DUR)
       => l2_last'[1].egress = <<>>]_vars

\* The indexes of the interfaces that are listed, up, not loopback and whose
\* channel opens.
EligibleIndexes ==
    {IFACES[k].index : k \in
        {j \in 1..Len(IFACES) :
            /\ \E n \in 1..Len(l2_cfg) : l2_cfg[n] = IFACES[j].name
            /\ ~IFACES[j].loopback /\ IFACES[j].up /\ IFACES[j].openable}}

\* C3: a frame captured on interface A that the relay thread relays is sent
\* once on every other eligible interface and never on A, also when A is
\* the only eligible interface.
C3_FanOutAllButIngress ==
    (l2_last # <<>> /\ l2_last[1].relayed) =>
        LET A == l2_last[1].msg.iface
            sent == l2_last[1].egress
        IN  /\ A \in EligibleIndexes
            /\ SeqRange(sent) = EligibleIndexes \ {A}
            /\ Len(sent) = Cardinality(EligibleIndexes \ {A})

C3_Witness ==
    /\ l2_last # <<>>
    /\ l2_last[1].relayed
    /\ l2_last[1].msg.iface = 3
    /\ SeqRange(l2_last[1].egress) = {2, 4}

\* C8: l2_worker never returns Ok without a capture thread: with no
\* operational interface among the configured names it returns an error and
\* starts nothing.
C8_NoStartWithoutCapture ==
    (l2_ret # <<>> /\ EligibleIndexes = {}) =>
        /\ ~l2_ret[1].ok
        /\ l2_ret[1].handles = 0
        /\ l2_relay_pc = "off"

(***************************************************************************)
(* Transport layer.                                                        *)
(***************************************************************************)
L4Dequeues == l4_relay.pc = "recv" /\ Len(l4_chan') < Len(l4_chan)

L4FanOutEnds == l4_relay.pc = "fan" /\ l4_relay'.pc # "fan"

\* C2: a dequeued message for a target without a timestamp is relayed; one
\* dequeued less than the window after the timestamp is not relayed; one
\* dequeued more than the window after it is relayed again; the timestamp is
\* written once per relayed message, when its fan-out ends, and by nothing else.
C2_CooldownWindow ==
    [][/\ L4Dequeues =>
            LET m == Head(l4_chan).target
                seen == m \in DOMAIN l4_cooldown_list
            IN  /\ ~seen => l4_last'[1].relayed
                /\ (seen /\ now - l4_cooldown_list[m] < COOLDOWN_DUR) =>
                      /\ ~l4_last'[1].relayed
                      /\ l4_relay'.pc # "fan"
                      /\ l4_cooldown_list' = l4_cooldown_list
                /\ (seen /\ now - l4_cooldown_list[m] > COOLDOWN_DUR) =>
                      l4_last'[1].relayed
                /\ l4_last'[1].relayed => l4_relay'.pc = "fan"
                /\ l4_last'[1].stamps = 0
                /\ m \notin DOMAIN l4_cooldown_list' \/ l4_cooldown_list' = l4_cooldown_list
       /\ L4FanOutEnds =>
            LET m == l4_relay.msg[1].target
            IN  /\ l4_cooldown_list' = MapInsert(l4_cooldown_list, m, now)
                /\ l4_last'[1].stamps = 1
       /\ (~L4Dequeues /\ ~L4FanOutEnds) =>
            /\ l4_cooldown_list' = l4_cooldown_list
            /\ l4_last # <<>> => l4_last'[1].stamps = l4_last[1].stamps]_vars

\* A message was dropped inside the window of an earlier, stamped relay.
C2_Witness ==
    /\ l4_last # <<>>
    /\ ~l4_last[1].relayed
    /\ l4_last[1].msg.target \in DOMAIN l4_cooldown_list
    /\ now - l4_cooldown_list[l4_last[1].msg.target] < COOLDOWN_DUR

\* What the fan-out of msg owes to the first n sanitized networks.
Owed(msg, n) ==
    [j \in 1..n |->
        [to |-> [ip |-> broadcast(l4_networks[j]), port |-> 9], body |-> msg.msg]]

\* C4: a relayed datagram is sent exactly once to each network of the
\* sanitized list, to its broadcast address on port 9, with the bytes of a
\* datagram a listener received.
C4_FanOutToEveryNetwork ==
    /\ StrictlySorted(l4_networks)
    /\ (l4_last # <<>> /\ l4_last[1].relayed) =>
          LET msg == l4_last[1].msg
              sent == l4_last[1].sent
          IN  /\ msg.msg \in l4_received
              /\ IF l4_relay.pc = "fan"
                 THEN sent = Owed(msg, l4_relay.k - 1)
                 ELSE sent = Owed(msg, Len(l4_networks))

C4_Witness ==
    /\ l4_last # <<>>
    /\ l4_last[1].relayed
    /\ l4_relay.pc # "fan"
    /\ Len(l4_networks) = 2
    /\ Len(l4_last[1].sent) = 2
    /\ l4_last[1].sent[1].to.ip = <<10, 1, 0, 255>>

(***************************************************************************)
(* Both layers.                                                            *)
(***************************************************************************)
AllStopped ==
    /\ \A i \in IfIdx : l2_cap[i].pc \in {"off", "done"}
    /\ l2_relay_pc \in {"off", "done"}
    /\ \A k \in Listeners : l4_cap[k].pc \in {"off", "done"}
    /\ l4_relay.pc \in {"off", "done"}

\* C5: once the cancellation signal is set, every capture loop and every
\* relay loop eventually terminates, from every reachable state.
C5_CancellationStopsEveryLoop == cancelled ~> AllStopped

\* Cancellation finds a capture thread blocked on the full channel.
C5_Witness ==
    /\ cancelled
    /\ l2_relay_pc = "recv"
    /\ Len(l2_chan) = CHANNEL_CAP
    /\ \E i \in IfIdx : l2_cap[i].pc = "send"

\* C9: the channel of either layer never holds more than 8 messages, and a
\* capture unit gets rid of the message it holds, while the relay stage
\* lives, only by queueing it, which needs a free slot.
C9_Backpressure ==
    [][/\ Len(l2_chan') <= 8
       /\ Len(l4_chan') <= 8
       /\ \A i \in IfIdx :
             (l2_cap[i].pc = "send" /\ l2_cap'[i] # l2_cap[i] /\ l2_relay_pc # "done") =>
                /\ Len(l2_chan) < 8
                /\ l2_chan' = Append(l2_chan, l2_cap[i].msg[1])
       /\ \A k \in Listeners :
             (l4_cap[k].pc = "send" /\ l4_cap'[k] # l4_cap[k] /\ l4_relay.pc # "done") =>
                /\ Len(l4_chan) < 8
                /\ l4_chan' = Append(l4_chan, l4_cap[k].msg[1])]_vars

\* Eight queued and a ninth message held by a waiting capture thread.
C9_Witness ==
    /\ ~cancelled
    /\ l2_relay_pc = "recv"
    /\ Len(l2_chan) = 8
    /\ \E i \in IfIdx : l2_cap[i].pc = "send"

(***************************************************************************)
(* Transport-layer startup and destinations.                               *)
(***************************************************************************)
NoLocalPrivateNetwork == \A k \in 1..Len(host_ips) : ~InPrivateRange(host_ips[k])

L4NothingStarted ==
    /\ \A k \in Listeners : l4_cap[k].pc = "off"
    /\ l4_relay.pc = "off"
    /\ l4_chan = <<>>

\* C11: with no locally attached private IPv4 network, or with an empty
\* relay_to, l4_worker returns an error and has started no capture task and
\* no relay task; nothing runs before l4_worker has returned Ok.
C11_ConfigErrorStartsNothing ==
    /\ (l4_ret # <<>> /\ (NoLocalPrivateNetwork \/ san_relay_to = <<>>)) =>
          /\ ~l4_ret[1].ok
          /\ l4_ret[1].tasks = 0
    /\ (l4_ret = <<>> \/ ~l4_ret[1].ok) => L4NothingStarted

C11_Witness ==
    /\ l4_ret # <<>>
    /\ ~l4_ret[1].ok
    /\ san_relay_to = <<>>
    /\ ~NoLocalPrivateNetwork
    /\ l4_listen_on # <<>>
    /\ san_result = <<Err("no relay networks specified!")>>

\* C12: every network of the sanitizer's output lies inside 10.0.0.0/8,
\* 172.16.0.0/12 or 192.168.0.0/16, for every configured relay_to.
C12_OnlyPrivateTargets ==
    (san_result # <<>> /\ san_result[1].ok) =>
        \A k \in 1..Len(san_result[1].networks) :
            InPrivateRange(san_result[1].networks[k])

(***************************************************************************)
(* What is relayed.                                                        *)
(***************************************************************************)
\* A frame to the broadcast address, of ethertype 0x0842, whose payload
\* passes the validator.
IsWolFrame(f) ==
    /\ Len(f) >= 14
    /\ \A k \in 1..6 : f[k] = 255
    /\ f[13] = 8 /\ f[14] = 66
    /\ check_wol_payload(SubSeq(f, 15, Len(f)))

\* C13: a frame the link-layer relay thread transmits is, byte for byte, a
\* frame a capture thread received that is a broadcast WoL frame with a
\* valid payload; a datagram the transport relay task transmits is, byte for
\* byte, a datagram a listener received that passes the validator.
C13_OnlyValidatedUnmodified ==
    /\ (l2_last # <<>> /\ l2_last[1].egress # <<>>) =>
          /\ l2_last[1].msg.pkt \in l2_received
          /\ IsWolFrame(l2_last[1].msg.pkt)
    /\ l4_last # <<>> =>
          \A j \in 1..Len(l4_last[1].sent) :
              /\ l4_last[1].sent[j].body \in l4_received
              /\ check_wol_payload(l4_last[1].sent[j].body)

C13_Witness ==
    /\ l2_last # <<>>
    /\ l2_last[1].egress # <<>>
    /\ l2_last[1].msg.pkt = WolFrame(MAC_B)
    /\ l2_received = {WolFrame(MAC_A), WolFrame(MAC_B)}

(***************************************************************************)
(* The cooldown list under suppression.                                    *)
(***************************************************************************)
\* The relay task drops the message it takes off the channel in this step.
L4Suppresses ==
    /\ L4Dequeues
    /\ Head(l4_chan).target \in DOMAIN l4_cooldown_list
    /\ now - l4_cooldown_list[Head(l4_chan).target] < COOLDOWN_DUR

\* C14: dropping a message for target m inside the window changes no entry
\* of the cooldown list, m's included; an entry is written only when a
\* fan-out ends, so it is the time of the last actual relay, and a message
\* dequeued once the window has elapsed since then is relayed.
C14_SuppressionKeepsTimestamps ==
    [][/\ L4Suppresses =>
            /\ l4_cooldown_list' = l4_cooldown_list
            /\ ~l4_last'[1].relayed
       /\ \A m \in DOMAIN l4_cooldown_list' :
            (m \notin DOMAIN l4_cooldown_list \/ l4_cooldown_list'[m] # l4_cooldown_list[m])
                => (L4FanOutEnds /\ l4_last'[1].msg.target = m /\ l4_cooldown_list'[m] = now)
       /\ (/\ L4Dequeues
           /\ Head(l4_chan).target \in DOMAIN l4_cooldown_list
           /\ now - l4_cooldown_list[Head(l4_chan).target] >= COOLDOWN_DUR)
            => l4_last'[1].relayed]_vars

\* A message was dropped some time after the relay that stamped its target,
\* and the sender has more to come.
C14_Witness ==
    /\ l4_last # <<>>
    /\ ~l4_last[1].relayed
    /\ l4_last[1].msg.target \in DOMAIN l4_cooldown_list
    /\ now > l4_cooldown_list[l4_last[1].msg.target]
    /\ l4_relay.pc = "recv"
    /\ \E k \in Listeners : l4_wire[k] # <<>>

(***************************************************************************)
(* Errors and cancellation inside the loops.                               *)
(***************************************************************************)
\* C15: a capture unit whose send fails because the relay stage has dropped
\* the receiver leaves its loop and terminates.
C15_SendFailureEndsProducer ==
    [][\A k \in Listeners :
          (l4_cap[k].pc = "send" /\ l4_relay.pc = "done" /\ l4_cap'[k] # l4_cap[k])
              => l4_cap'[k].pc = "done"]_vars

\* C16: what a timed read, receive or dequeue returns once the cancellation
\* flag is set is neither passed on to the channel nor relayed.
C16_NothingPassesAfterCancel ==
    [][cancelled =>
          /\ \A i \in IfIdx :
                l2_cap[i].pc = "read" => l2_cap'[i].pc # "send"
          /\ \A k \in Listeners :
                l4_cap[k].pc = "read" => l4_cap'[k].pc # "send"
          /\ L2Dequeues => ~l2_last'[1].relayed
          /\ L4Dequeues => ~l4_last'[1].relayed]_vars

(***************************************************************************)
(* Order and isolation.                                                    *)
(***************************************************************************)
\* The messages of capture thread i that the channel holds, oldest first.
RECURSIVE QueuedOf(_, _)
QueuedOf(chan, i) ==
    IF chan = <<>> THEN <<>>
    ELSE (IF Head(chan).iface = i THEN <<Head(chan)>> ELSE <<>>) \o QueuedOf(Tail(chan), i)

\* C17: the channel of either layer changes only by a capture unit's message
\* joining at its end, by the relay stage taking its head, or by the receiver
\* being dropped; so for each link-layer capture thread the message the
\* relay thread takes is that thread's oldest queued one and a new message
\* of the thread queues behind its earlier ones.
C17_PerProducerOrder ==
    [][/\ l2_chan' # l2_chan =>
            \/ \E i \in IfIdx :
                  /\ l2_cap[i].pc = "send"
                  /\ l2_chan' = Append(l2_chan, l2_cap[i].msg[1])
            \/ /\ l2_relay_pc = "recv"
               /\ l2_last'[1].msg = Head(l2_chan)
               /\ l2_chan' = IF l2_relay_pc' = "done" THEN <<>> ELSE Tail(l2_chan)
       /\ \A i \in IfIdx :
            LET mine == QueuedOf(l2_chan, i) IN
            QueuedOf(l2_chan', i) # mine =>
                \/ /\ l2_cap[i].pc = "send"
                   /\ QueuedOf(l2_chan', i) = Append(mine, l2_cap[i].msg[1])
                \/ /\ l2_last'[1].msg = Head(mine)
                   /\ QueuedOf(l2_chan', i) = Tail(mine)
                \/ /\ l2_relay_pc' = "done"
                   /\ l2_chan' = <<>>
       /\ l4_chan' # l4_chan =>
            \/ \E k \in Listeners :
                  /\ l4_cap[k].pc = "send"
                  /\ l4_chan' = Append(l4_chan, l4_cap[k].msg[1])
            \/ /\ l4_relay.pc = "recv"
               /\ l4_last'[1].msg = Head(l4_chan)
               /\ l4_chan' = IF l4_relay'.pc = "done" THEN <<>> ELSE Tail(l4_chan)
            \/ l4_relay'.pc = "done" /\ l4_chan' = <<>>]_vars

\* Thread 2 queued A then B with thread 3's B in between; A has been taken.
C17_Witness ==
    /\ l2_last # <<>>
    /\ l2_last[1].msg.iface = 2
    /\ l2_last[1].msg.target = MAC_A
    /\ Len(l2_chan) = 2
    /\ l2_chan[1].iface = 3
    /\ l2_chan[2].iface = 2
    /\ l2_chan[2].target = MAC_B

L2CapturesOver == \A i \in IfIdx : l2_cap[i].pc \in {"off", "done"}

L4CapturesOver == \A k \in Listeners : l4_cap[k].pc \in {"off", "done"}

\* C18: a capture unit that ends by itself (a read error other than a
\* timeout, a failed bind) takes nothing else with it: no other unit, the
\* relay stage and the channel are as before; without cancellation a capture
\* unit ends only by its own failure, and the relay stage ends only when no
\* capture unit is left (or its own socket setup fails).
C18_FailureIsolation ==
    [][~cancelled =>
          /\ \A i \in IfIdx :
                (l2_cap[i].pc # "done" /\ l2_cap'[i].pc = "done") =>
                    /\ l2_cap[i].pc = "read"
                    /\ \A j \in IfIdx \ {i} : l2_cap'[j] = l2_cap[j]
                    /\ l2_relay_pc' = l2_relay_pc
                    /\ l2_chan' = l2_chan
          /\ (l2_relay_pc # "done" /\ l2_relay_pc' = "done") => L2CapturesOver
          /\ \A k \in Listeners :
                (l4_cap[k].pc # "done" /\ l4_cap'[k].pc = "done") =>
                    /\ l4_cap[k].pc = "bind"
                    /\ \A j \in Listeners \ {k} : l4_cap'[j] = l4_cap[j]
                    /\ l4_relay' = l4_relay
                    /\ l4_chan' = l4_chan
          /\ (l4_relay.pc # "done" /\ l4_relay'.pc = "done") =>
                L4CapturesOver \/ l4_relay.pc = "bind"]_vars

\* eth0's thread has ended with a frame unread; eth1's frame was relayed on
\* and the relay thread still waits for more.
C18_Witness ==
    /\ ~cancelled
    /\ l2_cap[2].pc = "done"
    /\ l2_wire[2] # <<>>
    /\ l2_cap[3].pc = "read"
    /\ l2_relay_pc = "recv"
    /\ l2_last # <<>>
    /\ l2_last[1].relayed
    /\ l2_last[1].msg.iface = 3

(***************************************************************************)
(* Listen-address collapsing.                                              *)
(***************************************************************************)
L4CaptureTasks == {k \in Listeners : l4_cap[k].pc # "off"}

\* C19: when a configured listen address is 0.0.0.0, l4_worker spawns one
\* capture task, for a wildcard address, and drops every other address;
\* otherwise it spawns one capture task per configured address.
C19_ListenAddressCollapsing ==
    (l4_ret # <<>> /\ l4_ret[1].ok) =>
        /\ l4_ret[1].tasks = Len(l4_addrs) + 1
        /\ L4CaptureTasks = 1..Len(l4_addrs)
        /\ IF \E n \in 1..Len(l4_listen_on) : l4_listen_on[n].ip = <<0, 0, 0, 0>>
           THEN /\ Len(l4_addrs) = 1
                /\ l4_addrs[1].ip = <<0, 0, 0, 0>>
                /\ l4_addrs[1] \in SeqRange(l4_listen_on)
           ELSE l4_addrs = l4_listen_on

C19_Witness ==
    /\ l4_ret # <<>>
    /\ l4_ret[1].ok
    /\ l4_listen_on = <<ADDR_1, ADDR_ANY, ADDR_2>>
    /\ l4_addrs = <<ADDR_ANY>>
    /\ L4CaptureTasks = {1}

(***************************************************************************)
(* Cancellation in the entry point's worker.                               *)
(***************************************************************************)
MainAllStopped ==
    /\ \A i \in IfIdx : m_cap[i].pc \in {"off", "done", "panicked"}
    /\ m_relay_pc \in {"off", "done"}

\* Some thread can go on without a frame arriving: a send that finds room or
\* a dropped receiver, a receive that finds a message or no sender.
MainCanGoOn ==
    \/ \E i \in IfIdx :
          m_cap[i].pc = "send" /\ (m_relay_pc = "done" \/ Len(m_chan) < CHANNEL_CAP)
    \/ m_relay_pc = "recv" /\ (m_chan # <<>> \/ MainDisconnected)

\* C20: once the token is cancelled the threads of main.rs's l2_worker end
\* without a further frame arriving (while one still runs, one can go on by
\* itself), and no capture thread panics in its send.
C20_MainShutsDown ==
    cancelled =>
        /\ MainAllStopped \/ MainCanGoOn
        /\ \A i \in IfIdx : m_cap[i].pc # "panicked"

=============================================================================
